---- MODULE Spec2Model ----
(***************************************************************************)
(* Model of image_resizer.py: the function resize_image, walked statement  *)
(* group by statement group, and the Gradio submit button that calls it.   *)
(*                                                                         *)
(* Pixels are abstracted away: an image is its container kind (PIL image   *)
(* or numpy array), its colour mode and its size.  scale_factor is a       *)
(* Python float; the model draws it from the dyadic rationals num / 2^e,   *)
(* which a float represents exactly and whose product with a small integer *)
(* is exact too, so int(original_width * scale_factor) is computed here    *)
(* with integer arithmetic without losing anything.                        *)
(***************************************************************************)
EXTENDS Integers, Sequences, FiniteSets, TLC

(* ---------------------------- bounds ----------------------------------- *)
MaxW == 2          \* widest input image
MaxH == 2          \* tallest input image
MaxNum == 3        \* largest numerator of scale_factor
MaxExp == 1        \* scale_factor denominators are 2^0 .. 2^MaxExp
MaxT == 2          \* largest target_width / target_height

(* ---------------------------- values ----------------------------------- *)
\* Python's None
None == [none |-> TRUE]

\* a Python number num / den (den = 1 for the integers)
Number(n, d) == [num |-> n, den |-> d]

RECURSIVE Pow2(_)
Pow2(e) == IF e = 0 THEN 1 ELSE 2 * Pow2(e - 1)

\* the two choices of the resize_method radio, and a value that is neither
ScaleMethod == "scale"        \* the radio choice for scaling by a factor
CustomMethod == "custom"      \* the radio choice for explicit width and height
Methods == {ScaleMethod, CustomMethod, "other", "None"}

PILImage(m, w, h) == [kind |-> "PIL", mode |-> m, width |-> w, height |-> h]
NdArray(m, w, h) == [kind |-> "ndarray", mode |-> m, width |-> w, height |-> h]

\* what the caller can hand over as input_image: nothing, a PIL image, or a
\* numpy array (mode "bad": a dtype/shape Image.fromarray cannot handle)
InputImages ==
    {None}
    \cup {PILImage(m, w, h) : m \in {"RGBA", "RGB"}, w \in 1..MaxW, h \in 1..MaxH}
    \cup {NdArray(m, w, h) : m \in {"RGBA", "RGB", "bad"}, w \in 1..MaxW, h \in 1..MaxH}

ScaleFactors ==
    {None} \cup {Number(n, Pow2(e)) : n \in (-1)..MaxNum, e \in 0..MaxExp}

TargetSizes == {None} \cup {Number(n, 1) : n \in (-1)..MaxT}

\* the quality slider: 1..100, default 90
Qualities == {1, 90}

\* the library call that fails for a reason outside the arguments (out of
\* memory, I/O error), fixed per environment
Faults == {"none", "resize", "save", "open"}

(* ---------------------------- messages --------------------------------- *)
MissingInputMsg == [kind |-> "missing_input", text |-> "please upload an image"]
InvalidScaleMsg == [kind |-> "invalid_scale",
                    text |-> "please enter a valid scale factor"]
InvalidSizeMsg == [kind |-> "invalid_size",
                   text |-> "please enter valid width and height"]

ProcessingErrorMsg(e) ==
    [kind |-> "processing_error", text |-> "error processing image: ", cause |-> e]

InfoMsg(ow, oh, nw, nh) ==
    [kind |-> "info", original |-> <<ow, oh>>, resized |-> <<nw, nh>>,
     text |-> "saved as PNG format"]

(* ---------------------------- pure steps ------------------------------- *)
\* variant: the null check is skipped
IsMissing_skipped(image) == FALSE

\* input_image is None
IsMissing(image) == image = None

\* isinstance / Image.fromarray: the PIL image, or the exception raised
LoadRaises(image) ==
    IF image = None THEN "AttributeError"
    ELSE IF image.kind = "ndarray" /\ image.mode = "bad" THEN "TypeError"
    ELSE "none"

Load(image) == PILImage(image.mode, image.width, image.height)

\* img.convert('RGBA') unless already RGBA
ToRGBA(im) == IF im.mode # "RGBA" THEN PILImage("RGBA", im.width, im.height) ELSE im

\* variant: round to nearest instead of truncating
PyInt_rounded(num, den) == (2 * num + den) \div (2 * den)

\* Python's int() on the number num / den: truncation toward zero
PyInt(num, den) == IF num >= 0 THEN num \div den ELSE -((-num) \div den)

\* variant: every method but the custom choice scales
IsScaleBranch_default(method) == method # CustomMethod

\* resize_method == <the scale choice>
IsScaleBranch(method) == method = ScaleMethod

\* variant: scale_factor < 0, so that zero is accepted
ScaleInvalid_strict(sf) == sf = None \/ sf.num < 0

\* scale_factor is None or scale_factor <= 0
ScaleInvalid(sf) == sf = None \/ sf.num <= 0

\* new_width = int(original_width * scale_factor), new_height likewise
ScaledSize(orig, sf) ==
    <<PyInt(orig[1] * sf.num, sf.den), PyInt(orig[2] * sf.num, sf.den)>>

\* variant: the height follows the aspect ratio of the original
CustomSize_aspect(orig, tw, th) == <<tw.num, PyInt(orig[2] * tw.num, orig[1])>>

\* new_width = target_width, new_height = target_height
CustomSize(orig, tw, th) == <<tw.num, th.num>>

\* Python truthiness of an optional number: not x
Falsy(x) == x = None \/ x.num = 0

\* variant: only the truthiness tests, without the comparisons to 0
SizeInvalid_truthy(tw, th) == Falsy(tw) \/ Falsy(th)

\* not target_width or not target_height or target_width <= 0 or target_height <= 0
SizeInvalid(tw, th) == Falsy(tw) \/ Falsy(th) \/ tw.num <= 0 \/ th.num <= 0

\* img.resize(size, LANCZOS): Pillow refuses a size below 1x1
ResizeRaises(nw, nh, flt) ==
    IF nw < 1 \/ nh < 1 THEN "ValueError"
    ELSE IF flt = "resize" THEN "MemoryError"
    ELSE "none"

\* variant: a low quality switches to a lossy format without alpha
SavePNG_lossy(im, q) ==
    IF q < 50
    THEN [format |-> "JPEG", color_type |-> "RGB", ihdr |-> <<im.width, im.height>>]
    ELSE [format |-> "PNG", color_type |-> im.mode, ihdr |-> <<im.width, im.height>>]

\* resized_img.save(buffer, format='PNG'): the bytes of a PNG file
SavePNG(im, q) == [format |-> "PNG", color_type |-> im.mode,
                   ihdr |-> <<im.width, im.height>>]

\* np.array(Image.open(buffer))
OpenAsArray(png) == NdArray(png.color_type, png.ihdr[1], png.ihdr[2])

\* variant: except (ValueError, OSError)
Catches_some(e) == e \in {"ValueError", "OSError"}

\* except Exception
Catches(e) == TRUE

(* ---------------------------- state ------------------------------------ *)
VARIABLES
    pc,              \* position inside resize_image, "idle" between calls
    input_image, resize_method, scale_factor, target_width, target_height,
    quality,         \* the six arguments
    fault,           \* the environment's failing library call
    img,             \* local img
    original,        \* original_width, original_height
    new,             \* new_width, new_height
    resized_img, output_buffer, output_image,
    exc,             \* the exception in flight
    result,          \* the returned (image, message) pair
    steps,           \* statement groups executed by this call, in order
    prev             \* the result of the previous submission of this form

args == <<input_image, resize_method, scale_factor, target_width, target_height,
          quality>>
locals == <<img, original, new, resized_img, output_buffer, output_image>>
vars == <<pc, args, fault, locals, exc, result, steps, prev>>

Init ==
    /\ pc = "idle"
    /\ input_image = None /\ resize_method = ScaleMethod
    /\ scale_factor = None /\ target_width = None /\ target_height = None
    /\ quality = 90
    /\ fault = "none"
    /\ img = None /\ original = None /\ new = None
    /\ resized_img = None /\ output_buffer = None /\ output_image = None
    /\ exc = "none"
    /\ result = None
    /\ steps = <<>>
    /\ prev = None

ClearLocals ==
    /\ img' = None /\ original' = None /\ new' = None
    /\ resized_img' = None /\ output_buffer' = None /\ output_image' = None
    /\ exc' = "none"
    /\ result' = None
    /\ steps' = <<>>

\* submit_btn.click: the form's values become the arguments of a new call
Submit ==
    /\ pc = "idle"
    /\ input_image' \in InputImages
    /\ resize_method' \in Methods
    /\ scale_factor' \in ScaleFactors
    /\ target_width' \in TargetSizes
    /\ target_height' \in TargetSizes
    /\ quality' \in Qualities
    /\ fault' \in Faults
    /\ ClearLocals
    /\ prev' = None
    /\ pc' = "null_check"

\* the user moves only the quality slider and submits the same form again
Resubmit ==
    /\ pc = "done"
    /\ prev = None
    /\ quality' \in Qualities \ {quality}
    /\ UNCHANGED <<input_image, resize_method, scale_factor, target_width,
                   target_height, fault>>
    /\ prev' = result
    /\ ClearLocals
    /\ pc' = "null_check"

\* the call has returned: its frame is discarded, nothing is retained
Return ==
    /\ pc \in {"done", "crashed"}
    /\ input_image' = None /\ resize_method' = ScaleMethod
    /\ scale_factor' = None /\ target_width' = None /\ target_height' = None
    /\ quality' = 90
    /\ fault' = "none"
    /\ ClearLocals
    /\ prev' = None
    /\ pc' = "idle"

\* if input_image is None: return None, <missing-input message>
NullCheck ==
    /\ pc = "null_check"
    /\ steps' = Append(steps, "null_check")
    /\ IF IsMissing(input_image)
       THEN /\ result' = <<None, MissingInputMsg>>
            /\ pc' = "done"
       ELSE /\ result' = result
            /\ pc' = "load"
    /\ UNCHANGED <<args, fault, locals, exc, prev>>

\* img = input_image or Image.fromarray(input_image); convert to RGBA;
\* original_width, original_height = img.size
LoadImage ==
    /\ pc = "load"
    /\ steps' = Append(steps, "load")
    /\ IF LoadRaises(input_image) # "none"
       THEN /\ exc' = LoadRaises(input_image)
            /\ pc' = "except"
            /\ UNCHANGED <<img, original>>
       ELSE /\ img' = ToRGBA(Load(input_image))
            /\ original' = <<img'.width, img'.height>>
            /\ exc' = exc
            /\ pc' = "dispatch"
    /\ UNCHANGED <<args, fault, new, resized_img, output_buffer, output_image,
                   result, prev>>

\* if resize_method == <the scale choice>: ... else: ...
Dispatch ==
    /\ pc = "dispatch"
    /\ IF IsScaleBranch(resize_method)
       THEN /\ steps' = Append(steps, "scale")
            /\ IF ScaleInvalid(scale_factor)
               THEN /\ result' = <<None, InvalidScaleMsg>>
                    /\ new' = new
                    /\ pc' = "done"
               ELSE /\ new' = ScaledSize(original, scale_factor)
                    /\ result' = result
                    /\ pc' = "resample"
       ELSE /\ steps' = Append(steps, "custom")
            /\ IF SizeInvalid(target_width, target_height)
               THEN /\ result' = <<None, InvalidSizeMsg>>
                    /\ new' = new
                    /\ pc' = "done"
               ELSE /\ new' = CustomSize(original, target_width, target_height)
                    /\ result' = result
                    /\ pc' = "resample"
    /\ UNCHANGED <<args, fault, img, original, resized_img, output_buffer,
                   output_image, exc, prev>>

\* resized_img = img.resize((new_width, new_height), Image.Resampling.LANCZOS)
Resample ==
    /\ pc = "resample"
    /\ steps' = Append(steps, "resample")
    /\ IF ResizeRaises(new[1], new[2], fault) # "none"
       THEN /\ exc' = ResizeRaises(new[1], new[2], fault)
            /\ resized_img' = resized_img
            /\ pc' = "except"
       ELSE /\ resized_img' = PILImage(img.mode, new[1], new[2])
            /\ exc' = exc
            /\ pc' = "encode"
    /\ UNCHANGED <<args, fault, img, original, new, output_buffer,
                   output_image, result, prev>>

\* resized_img.save(output_buffer, format='PNG'); output_buffer.seek(0)
Encode ==
    /\ pc = "encode"
    /\ steps' = Append(steps, "encode")
    /\ IF fault = "save"
       THEN /\ exc' = "OSError"
            /\ output_buffer' = output_buffer
            /\ pc' = "except"
       ELSE /\ output_buffer' = SavePNG(resized_img, quality)
            /\ exc' = exc
            /\ pc' = "decode"
    /\ UNCHANGED <<args, fault, img, original, new, resized_img,
                   output_image, result, prev>>

\* output_image = np.array(Image.open(output_buffer)); return it with the info
Decode ==
    /\ pc = "decode"
    /\ steps' = Append(steps, "decode")
    /\ IF fault = "open"
       THEN /\ exc' = "OSError"
            /\ UNCHANGED <<output_image, result>>
            /\ pc' = "except"
       ELSE /\ output_image' = OpenAsArray(output_buffer)
            /\ result' = <<output_image',
                           InfoMsg(original[1], original[2], new[1], new[2])>>
            /\ exc' = exc
            /\ pc' = "done"
    /\ UNCHANGED <<args, fault, img, original, new, resized_img,
                   output_buffer, prev>>

\* variant: the handler returns whatever image it had so far
ExceptResult_partial(e) == <<resized_img, ProcessingErrorMsg(e)>>

\* return None, <processing-error prefix> + str(e)
ExceptResult(e) == <<None, ProcessingErrorMsg(e)>>

\* except Exception as e: the handler at the function boundary
Except ==
    /\ pc = "except"
    /\ steps' = Append(steps, "except")
    /\ IF Catches(exc)
       THEN /\ result' = ExceptResult(exc)
            /\ pc' = "done"
       ELSE /\ result' = result
            /\ pc' = "crashed"
    /\ UNCHANGED <<args, fault, locals, exc, prev>>

Next ==
    \/ Submit
    \/ Resubmit
    \/ Return
    \/ NullCheck
    \/ LoadImage
    \/ Dispatch
    \/ Resample
    \/ Encode
    \/ Decode
    \/ Except

Spec == Init /\ [][Next]_vars

(* ---------------------------- properties ------------------------------- *)
\* the mathematical floor of n / d for d > 0, defined without \div
Floor(n, d) ==
    LET a == IF n >= 0 THEN n ELSE -n
    IN CHOOSE k \in (-(a + 1))..(a + 1) : k * d <= n /\ n < (k + 1) * d

\* the image argument is present and loads
ValidImage == LoadRaises(input_image) = "none"

Positive(x) == x # None /\ x.num > 0

Returned == pc = "done"
Succeeded == pc = "done" /\ result[2].kind = "info"

ErrorKinds == {"missing_input", "invalid_scale", "invalid_size", "processing_error"}

\* C1: in Scale mode with a loadable image and scale_factor > 0, new_width and
\* new_height are the floors of original * scale_factor; these are the
\* dimensions the resampling step receives and produces, and the ones a
\* successful result has and reports.
C1_ScaleFloors ==
    (resize_method = ScaleMethod /\ ValidImage /\ Positive(scale_factor)
       /\ pc \in {"resample", "encode", "decode", "except", "done"})
    => LET fw == Floor(input_image.width * scale_factor.num, scale_factor.den)
           fh == Floor(input_image.height * scale_factor.num, scale_factor.den)
       IN /\ new = <<fw, fh>>
          /\ resized_img # None
               => <<resized_img.width, resized_img.height>> = <<fw, fh>>
          /\ Succeeded
               => /\ result[2].resized = <<fw, fh>>
                  /\ result[2].original = <<input_image.width, input_image.height>>
                  /\ <<result[1].width, result[1].height>> = <<fw, fh>>

\* a successful Scale call whose exact product is not an integer
C1_Witness ==
    /\ Succeeded
    /\ resize_method = ScaleMethod
    /\ (input_image.width * scale_factor.num) % scale_factor.den # 0

\* C2: whenever parameter validation has passed and the resampling step is
\* about to run, new_width >= 1 and new_height >= 1.
C2_PositiveDims ==
    pc = "resample" => new[1] >= 1 /\ new[2] >= 1

\* C3: in Explicit mode with a loadable image and target_width > 0,
\* target_height > 0, the dimensions computed, resampled to and returned are
\* exactly (target_width, target_height), and the call succeeds unless a
\* library call fails.
C3_CustomExact ==
    (resize_method = CustomMethod /\ ValidImage
       /\ Positive(target_width) /\ Positive(target_height)
       /\ pc \in {"resample", "encode", "decode", "except", "done"})
    => LET tsize == <<target_width.num, target_height.num>>
       IN /\ new = tsize
          /\ resized_img # None => <<resized_img.width, resized_img.height>> = tsize
          /\ Succeeded
               => /\ result[2].resized = tsize
                  /\ <<result[1].width, result[1].height>> = tsize
          /\ (Returned /\ fault = "none") => Succeeded

\* a successful Explicit call that changes the aspect ratio
C3_Witness ==
    /\ Succeeded
    /\ resize_method = CustomMethod
    /\ input_image.width * target_height.num # input_image.height * target_width.num

\* C4: with a null image the call returns (None, missing-input message)
\* whatever the other arguments are, and the null check is the only step run.
C4_NullImage ==
    (input_image = None /\ pc \notin {"idle", "null_check"})
    => /\ pc = "done"
       /\ result = <<None, MissingInputMsg>>
       /\ steps = <<"null_check">>

\* a null image submitted with an unknown mode and missing parameters
C4_Witness ==
    /\ Returned
    /\ input_image = None
    /\ resize_method = "other"
    /\ scale_factor = None /\ target_width = None

\* C5: in Scale mode with a loadable image, a missing, zero or negative
\* scale_factor returns (None, invalid-scale message) without ever reaching
\* resampling or encoding; a positive scale_factor never returns that failure.
C5_ScaleValidation ==
    (resize_method = ScaleMethod /\ ValidImage)
    => /\ ~Positive(scale_factor)
            => /\ pc \notin {"resample", "encode", "decode", "except", "crashed"}
               /\ Returned
                    => /\ result = <<None, InvalidScaleMsg>>
                       /\ steps = <<"null_check", "load", "scale">>
       /\ (Positive(scale_factor) /\ Returned) => result[2].kind # "invalid_scale"

\* a Scale call rejected for a zero scale_factor
C5_Witness ==
    /\ Returned
    /\ resize_method = ScaleMethod /\ ValidImage
    /\ scale_factor # None /\ scale_factor.num = 0
    /\ result[2].kind = "invalid_scale"

\* C6: in Explicit mode with a loadable image, a missing, zero or negative
\* target_width or target_height returns (None, invalid-size message) without
\* ever reaching resampling or encoding; when both are positive that failure
\* is never returned.
C6_SizeValidation ==
    (resize_method = CustomMethod /\ ValidImage)
    => /\ (~Positive(target_width) \/ ~Positive(target_height))
            => /\ pc \notin {"resample", "encode", "decode", "except", "crashed"}
               /\ Returned
                    => /\ result = <<None, InvalidSizeMsg>>
                       /\ steps = <<"null_check", "load", "custom">>
       /\ (Positive(target_width) /\ Positive(target_height) /\ Returned)
            => result[2].kind # "invalid_size"

\* an Explicit call rejected for a negative height next to a valid width
C6_Witness ==
    /\ Returned
    /\ resize_method = CustomMethod /\ ValidImage
    /\ Positive(target_width)
    /\ target_height # None /\ target_height.num < 0
    /\ result[2].kind = "invalid_size"

\* C7: every returned result is either an image with the info message or
\* None with an error message, never a mixture.
C7_ExactlyOne ==
    Returned
    => \/ /\ result[1] # None
          /\ result[1].kind = "ndarray"
          /\ result[2].kind = "info"
       \/ /\ result[1] = None
          /\ result[2].kind \in ErrorKinds

\* a call that fails after the resampling had produced an image
C7_Witness ==
    /\ Returned
    /\ resized_img # None
    /\ result[2].kind = "processing_error"

\* C8: no exception leaves resize_image: every exception raised is caught by
\* the handler and returned as (None, processing-error message with the
\* cause), and a call never runs more than seven steps (six statement groups
\* and the handler).
C8_NoEscape ==
    /\ pc # "crashed"
    /\ exc # "none" => pc \in {"except", "done"}
    /\ (Returned /\ exc # "none") => result = <<None, ProcessingErrorMsg(exc)>>
    /\ Returned => result # None
    /\ Len(steps) <= 7

\* a call whose image could not be loaded and that returned the failure
C8_Witness ==
    /\ Returned
    /\ exc = "TypeError"
    /\ result[2].kind = "processing_error"

\* C9: a call that differs from the previous one only in quality returns the
\* same result.
C9_QualityUnused ==
    (Returned /\ prev # None) => result = prev

\* a successful call resubmitted with another quality
C9_Witness ==
    /\ Succeeded
    /\ prev # None
    /\ quality = 1

\* C10: the Scale branch is taken exactly when the mode is the Scale choice
\* and every other value takes the Explicit branch; the Explicit branch's
\* outcome depends on target_width/target_height only, the Scale branch's on
\* scale_factor only.
C10_Dispatch ==
    /\ (\E i \in 1..Len(steps) : steps[i] = "scale") => resize_method = ScaleMethod
    /\ (\E i \in 1..Len(steps) : steps[i] = "custom") => resize_method # ScaleMethod
    /\ (ValidImage /\ pc \notin {"idle", "null_check", "load", "dispatch"})
       => IF resize_method = ScaleMethod
          THEN /\ steps[3] = "scale"
               /\ Returned => result[2].kind # "invalid_size"
               /\ IF Positive(scale_factor)
                  THEN new = ScaledSize(original, scale_factor)
                  ELSE Returned /\ result = <<None, InvalidScaleMsg>>
          ELSE /\ steps[3] = "custom"
               /\ Returned => result[2].kind # "invalid_scale"
               /\ IF Positive(target_width) /\ Positive(target_height)
                  THEN new = <<target_width.num, target_height.num>>
                  ELSE Returned /\ result = <<None, InvalidSizeMsg>>

\* an unrecognised mode succeeds through the Explicit branch although its
\* scale_factor is invalid
C10_Witness ==
    /\ Succeeded
    /\ resize_method \in {"other", "None"}
    /\ ~Positive(scale_factor)
====
